---------------------------- MODULE Spec2Model ----------------------------
(***************************************************************************)
(* stylus-sprite: the Sprite object of src/unnamed/part_001.               *)
(*                                                                         *)
(* Text is modelled as a sequence of atoms (strings): an option string is  *)
(* the sequence of its separators ";" ":" " " and of the words between     *)
(* them, a CSS text the sequence of its chunks.  split, trim, toLowerCase  *)
(* and join work on these sequences as the JavaScript functions work on    *)
(* characters.                                                             *)
(***************************************************************************)
EXTENDS Integers, Sequences, FiniteSets, TLC

VARIABLES
    sprite,           \* the Sprite object: how its construction ended, its output file
    images,           \* this.images: specs registered and not yet taken by a build
    processedImages,  \* this.processedImages: specs resolved by processImage
    _img_id,          \* this._img_id: the id counter
    canvasWidth,      \* this.canvasWidth
    canvasHeight,     \* this.canvasHeight
    builds,           \* one record per call of build(css, callback)
    outputFile,       \* the sprite file on disk: the builds whose save wrote it
    regs,             \* history: one record per call of spritefunc
    process           \* "running", "crashed" (uncaught exception) or "hung" (endless loop)

vars == <<sprite, images, processedImages, _img_id, canvasWidth, canvasHeight,
          builds, outputFile, regs, process>>

(***************************************************************************)
(* Bounds of the model.                                                    *)
(***************************************************************************)
MaxRegs == 2      \* calls of spritefunc
MaxBuilds == 2    \* calls of build

(***************************************************************************)
(* Constructor.                                                            *)
(***************************************************************************)
padding == 10
placeholder == "SPRITE_PLACEHOLDER"

(***************************************************************************)
(* Sprite.prototype.keys and Sprite.prototype.defaults.                    *)
(***************************************************************************)
NumberKey == [type |-> "number", values |-> <<>>]

keys ==
    [ width       |-> NumberKey,
      height      |-> NumberKey,
      align       |-> [type |-> "predefined", values |-> <<"block", "left", "center", "right">>],
      valign      |-> [type |-> "predefined", values |-> <<"block", "bottom", "middle", "top">>],
      resize      |-> [type |-> "boolean", values |-> <<>>],
      repeat      |-> [type |-> "predefined", values |-> <<"no", "x", "y">>],
      totalwidth  |-> NumberKey,
      totalheight |-> NumberKey,
      padwidth    |-> NumberKey,
      padheight   |-> NumberKey ]
    @@ ("limit-repeat-x" :> NumberKey)
    @@ ("limit-repeat-y" :> NumberKey)

\* Lowercase property names that every JavaScript object inherits from
\* Object.prototype: this.keys[key] is truthy for them as well.
InheritedKeys == {"constructor", "__proto__"}

\* this.keys[key] is truthy
KeyKnown(key) == key \in DOMAIN keys \/ key \in InheritedKeys

\* this.keys[key].type, "undefined" for an inherited property
KeyType(key) == IF key \in DOMAIN keys THEN keys[key].type ELSE "undefined"

defaults ==
    [ width  |-> 0,
      height |-> 0,
      align  |-> "block",
      valign |-> "block",
      resize |-> FALSE,
      repeat |-> "no" ]
    @@ ("limit-repeat-y" :> 300)
    @@ ("limit-repeat-x" :> 0)

getDefaults == [k \in DOMAIN defaults |-> defaults[k]]

(***************************************************************************)
(* String functions on atom sequences.                                     *)
(***************************************************************************)
\* String.prototype.split(sep): the parts between the separators
RECURSIVE SplitFrom(_, _, _, _, _)
SplitFrom(s, sep, i, cur, acc) ==
    IF i > Len(s) THEN Append(acc, cur)
    ELSE IF s[i] = sep THEN SplitFrom(s, sep, i + 1, <<>>, Append(acc, cur))
    ELSE SplitFrom(s, sep, i + 1, Append(cur, s[i]), acc)

Split(s, sep) == SplitFrom(s, sep, 1, <<>>, <<>>)

\* String.prototype.trim(): whitespace removed at both ends
RECURSIVE TrimLeft(_)
TrimLeft(s) == IF s # <<>> /\ Head(s) = " " THEN TrimLeft(Tail(s)) ELSE s

RECURSIVE TrimRight(_)
TrimRight(s) ==
    IF s # <<>> /\ s[Len(s)] = " " THEN TrimRight(SubSeq(s, 1, Len(s) - 1)) ELSE s

\* trim() left out
TrimNothing(s) == s

Trim(s) == TrimRight(TrimLeft(s))

\* String.prototype.toLowerCase() on the words the inputs use
LowerWord(w) ==
    CASE w = "HEIGHT" -> "height"
      [] w = "Align"  -> "align"
      [] w = "WIDTH"  -> "width"
      [] w = "Bogus"  -> "bogus"
      [] w = "PNG"    -> "png"
      [] w = "Jpg"    -> "jpg"
      [] OTHER -> w

ToLowerCase(s) == [i \in 1..Len(s) |-> LowerWord(s[i])]

\* Array.prototype.join(sep) of parts that are atom sequences
RECURSIVE Join(_, _)
Join(parts, sep) ==
    IF parts = <<>> THEN <<>>
    ELSE IF Len(parts) = 1 THEN parts[1]
    ELSE parts[1] \o <<sep>> \o Join(Tail(parts), sep)

\* Array.prototype.join(sep) of strings, and the string an array converts to
RECURSIVE JoinText(_, _)
JoinText(parts, sep) ==
    IF parts = <<>> THEN ""
    ELSE IF Len(parts) = 1 THEN parts[1]
    ELSE parts[1] \o sep \o JoinText(Tail(parts), sep)

\* the atoms of a text written out as one string
RECURSIVE Str(_)
Str(s) == IF s = <<>> THEN "" ELSE Head(s) \o Str(Tail(s))

(***************************************************************************)
(* new Sprite(options): lines 41-50.  options.output_file is an atom       *)
(* sequence, empty when the option is not given.                           *)
(***************************************************************************)
\* this.output_file
outputFileOf(output_file) ==
    IF output_file = <<>> THEN <<"sprite", ".", "png">> ELSE output_file

\* toLowerCase() left out
outputFormatCaseSensitive(output_file) ==
    LET parts == Split(outputFileOf(output_file), ".")
        last  == Str(parts[Len(parts)])
    IN  IF last = "" THEN "png" ELSE last

\* this.output_format
outputFormatOf(output_file) ==
    LET parts == Split(outputFileOf(output_file), ".")
        last  == Str(ToLowerCase(parts[Len(parts)]))
    IN  IF last = "" THEN "png" ELSE last

OutputFormats == <<"png", "jpeg", "jpg", "gif">>

\* the object after the constructor has returned or thrown
Sprite(output_file) ==
    LET output_format == outputFormatOf(output_file)
    IN  IF \A n \in DOMAIN OutputFormats : OutputFormats[n] # output_format
        THEN [state |-> "thrown", options |-> output_file,
              output_file |-> outputFileOf(output_file), output_format |-> output_format,
              msg |-> "Invalid output format '" \o output_format \o "'"]
        ELSE [state |-> "constructed", options |-> output_file,
              output_file |-> outputFileOf(output_file), output_format |-> output_format,
              msg |-> ""]

(***************************************************************************)
(* Number(value) on the value texts the inputs use.  NaN is no integer:    *)
(* IsNaN tells it apart, NumberOf is read only when IsNaN is false.        *)
(* Infinity is a number above every other number of the model.             *)
(***************************************************************************)
Infinity == 1000000

\* the texts that are decimal numerals
NumeralText == {"0", "5", "8", "25", "30", "40", "-5"}

NumberOf(str) ==
    CASE str = ""   -> 0
      [] str = "0"  -> 0
      [] str = "5"  -> 5
      [] str = "8"  -> 8
      [] str = "25" -> 25
      [] str = "30" -> 30
      [] str = "40" -> 40
      [] str = "-5" -> -5
      [] str = "Infinity" -> Infinity
      [] OTHER -> 0

IsNaN(str) == str # "" /\ str \notin NumeralText /\ str # "Infinity"

\* String(n) of a number
NumberText(n) == IF n = Infinity THEN "Infinity" ELSE ToString(n)

(***************************************************************************)
(* Sprite#validate(key, value).  A raw value is [missing, str]: missing    *)
(* is the number 0 that spritefunc passes for a clause without ":".        *)
(* The result is [ok, val, msg]: the processed value, or the message of    *)
(* the Error thrown.                                                       *)
(***************************************************************************)
Thrown(msg) == [ok |-> FALSE, val |-> 0, msg |-> msg]
Returned(val) == [ok |-> TRUE, val |-> val, msg |-> ""]

\* String(value) of a raw value
RawText(value) == IF value.missing THEN "0" ELSE value.str

validateNumber(key, value) ==
    IF ~value.missing /\ IsNaN(value.str)
    THEN Thrown("Invalid number value '" \o key \o "' for " \o key)
    ELSE Returned(IF value.missing THEN 0 ELSE NumberOf(value.str))

validatePredefined(key, value) ==
    IF value.missing \/ \A n \in DOMAIN keys[key].values : keys[key].values[n] # value.str
    THEN Thrown("Unknown value '" \o RawText(value) \o "' for " \o key
                \o ", allowed: " \o JoinText(keys[key].values, ","))
    ELSE Returned(value.str)

\* the comparison with "0" left out
validateBooleanWithoutZero(key, value) ==
    Returned(~(value.missing \/ value.str = "false" \/ value.str = ""))

validateBoolean(key, value) ==
    Returned(~(value.missing \/ value.str = "false" \/ value.str = "0" \/ value.str = ""))

validate(key, value) ==
    IF ~KeyKnown(key) THEN Thrown("Invalid key '" \o key \o "'")
    ELSE CASE KeyType(key) = "number"     -> validateNumber(key, value)
           [] KeyType(key) = "predefined" -> validatePredefined(key, value)
           [] KeyType(key) = "boolean"    -> validateBoolean(key, value)
           [] OTHER                       -> Returned(value)

(***************************************************************************)
(* Sprite#spritefunc(filename, options).                                   *)
(***************************************************************************)
\* One clause of the option string: key and raw value.
ClauseParts(opts) == Split(opts, ":")

ClauseKey(opts) ==
    LET parts == ClauseParts(opts)
    IN  IF parts[1] = <<>> THEN "" ELSE Str(ToLowerCase(Trim(parts[1])))

ClauseValue(opts) ==
    LET parts == ClauseParts(opts)
        rest  == IF parts[1] = <<>> THEN parts ELSE Tail(parts)
    IN  IF Len(rest) = 0
        THEN [missing |-> TRUE, str |-> ""]
        ELSE [missing |-> FALSE, str |-> Str(Trim(Join(rest, ":")))]

\* imgdata[key] = value: assigning "__proto__" a primitive creates no property
SetKey(imgdata, key, val) ==
    IF key = "__proto__" THEN imgdata ELSE (key :> val) @@ imgdata

\* the clauses taken from the last one to the first one
RECURSIVE OverlayClausesBackwards(_, _)
OverlayClausesBackwards(imgdata, clauses) ==
    IF clauses = <<>> THEN [ok |-> TRUE, imgdata |-> imgdata, msg |-> ""]
    ELSE LET last == clauses[Len(clauses)]
             key  == ClauseKey(last)
             v    == validate(key, ClauseValue(last))
             rest == SubSeq(clauses, 1, Len(clauses) - 1)
         IN  IF key = "" THEN OverlayClausesBackwards(imgdata, rest)
             ELSE IF ~v.ok THEN [ok |-> FALSE, imgdata |-> imgdata, msg |-> v.msg]
             ELSE OverlayClausesBackwards(SetKey(imgdata, key, v.val), rest)

\* The forEach over the clauses: [ok, imgdata, msg], stopping at the first throw.
RECURSIVE OverlayClauses(_, _)
OverlayClauses(imgdata, clauses) ==
    IF clauses = <<>> THEN [ok |-> TRUE, imgdata |-> imgdata, msg |-> ""]
    ELSE LET key == ClauseKey(Head(clauses))
             v   == validate(key, ClauseValue(Head(clauses)))
         IN  IF key = "" THEN OverlayClauses(imgdata, Tail(clauses))
             ELSE IF ~v.ok THEN [ok |-> FALSE, imgdata |-> imgdata, msg |-> v.msg]
             ELSE OverlayClauses(SetKey(imgdata, key, v.val), Tail(clauses))

\* keys.sort(): the property names an imgdata can own, in code-unit order
KeyOrder ==
    << "align", "constructor", "filename", "height", "limit-repeat-x",
       "limit-repeat-y", "padheight", "padwidth", "repeat", "resize",
       "totalheight", "totalwidth", "valign", "width" >>

SortedKeys(imgdata) == SelectSeq(KeyOrder, LAMBDA k : k \in DOMAIN imgdata)

\* String(imgdata[key]) as the "+" of the hash loop converts it
ValueText(imgdata, key) ==
    CASE key = "filename"              -> imgdata[key]
      [] KeyType(key) = "number"       -> NumberText(imgdata[key])
      [] KeyType(key) = "predefined"   -> imgdata[key]
      [] KeyType(key) = "boolean"      -> IF imgdata[key] THEN "true" ELSE "false"
      [] OTHER                         -> RawText(imgdata[key])

\* the hash built from the options alone, the filename left out
HashWithoutFilename(imgdata) ==
    LET ks == SelectSeq(SortedKeys(imgdata), LAMBDA k : k # "filename")
    IN  JoinText([i \in 1..Len(ks) |-> ks[i] \o "=" \o ValueText(imgdata, ks[i])], ";")

Hash(imgdata) ==
    LET ks == SortedKeys(imgdata)
    IN  JoinText([i \in 1..Len(ks) |-> ks[i] \o "=" \o ValueText(imgdata, ks[i])], ";")

\* The merged record: defaults, filename, validated clauses.
Merged(filename, options) ==
    OverlayClauses(("filename" :> filename) @@ getDefaults, Split(options, ";"))

\* a filter that lets no element through
CachedNever(imgs, hash) == <<>>

\* this.images.filter(elm.hash == imgdata.hash): the last match is the cached value
Cached(imgs, hash) == SelectSeq(imgs, LAMBDA elm : elm.hash = hash)

PlaceholderText(id) == placeholder \o "(" \o ToString(id) \o ")"

\* The outcome of spritefunc on the registry (imgs, counter):
\* [ok, msg, ret, id, hash, rec, images, _img_id].
spritefunc(imgs, counter, filename, lineno, options) ==
    LET m    == Merged(filename, options)
        hash == Hash(m.imgdata)
        hit  == Cached(imgs, hash)
        new  == ("hash" :> hash) @@ ("_img_id" :> counter + 1)
                @@ ("lineno" :> lineno) @@ m.imgdata
    IN  IF ~m.ok
        THEN [ok |-> FALSE, msg |-> m.msg, ret |-> "", id |-> 0, hash |-> "",
              rec |-> <<>>, images |-> imgs, _img_id |-> counter]
        ELSE IF hit # <<>>
        THEN [ok |-> TRUE, msg |-> "", ret |-> PlaceholderText(hit[Len(hit)]._img_id),
              id |-> hit[Len(hit)]._img_id, hash |-> hash, rec |-> m.imgdata,
              images |-> imgs, _img_id |-> counter]
        ELSE [ok |-> TRUE, msg |-> "", ret |-> PlaceholderText(counter + 1),
              id |-> counter + 1, hash |-> hash, rec |-> m.imgdata,
              images |-> Append(imgs, new), _img_id |-> counter + 1]

(***************************************************************************)
(* JavaScript values of mixed type, for the || and && chains of            *)
(* processImage: a number, a string or a boolean.                          *)
(***************************************************************************)
Num(n)  == [t |-> "number",  n |-> n, s |-> ""]
Text(s) == [t |-> "string",  n |-> 0, s |-> s]
Bool(b) == [t |-> "boolean", n |-> IF b THEN 1 ELSE 0, s |-> ""]

Truthy(v) ==
    CASE v.t = "number" -> v.n # 0
      [] v.t = "string" -> v.s # ""
      [] OTHER          -> v.n = 1

JsAnd(a, b) == IF Truthy(a) THEN b ELSE a
JsOr(a, b)  == IF Truthy(a) THEN a ELSE b

(***************************************************************************)
(* Sprite#processImage: the decode callback on success.  img is the        *)
(* decoded image [width, height].                                          *)
(***************************************************************************)
\* imgdata.blockWidth: "&&" binds tighter than "||", the first operand of
\* the chain is (repeat=="x" && limit-repeat-x || "100%")
blockWidthOf(d) ==
    JsOr(JsOr(JsOr(JsAnd(Bool(d.repeat = "x"), Num(d["limit-repeat-x"])), Text("100%")),
              JsAnd(Bool(d.align # "block"), Text("100%"))),
         Num(d.width))

\* imgdata.blockHeight before the clamp
blockHeightOf(d) ==
    JsOr(JsAnd(Bool(d.repeat = "y"), Num(d["limit-repeat-y"])), Num(d.height)).n

\* lines 283-303 and 318: the fields processImage fills in
resolveImage(imgdata, img) ==
    LET sized == [imgdata EXCEPT
                    !.width  = IF @ = 0 THEN img.width ELSE @,
                    !.height = IF @ = 0 THEN img.height ELSE @]
        bh    == blockHeightOf(sized)
    IN  ("imageWidth" :> img.width) @@ ("imageHeight" :> img.height)
        @@ ("blockWidth" :> blockWidthOf(sized))
        @@ ("blockHeight" :> IF bh < sized.height THEN sized.height ELSE bh)
        @@ sized

\* lines 310-312 alone: a numeric blockWidth does not widen the canvas
canvasWidthByWidthOnly(cw, d) == IF d.width > cw THEN d.width ELSE cw

\* lines 305-308 alone: the canvas not widened for "100%" blocks
canvasWidthByBlockOnly(cw, d) ==
    IF d.blockWidth.t = "number" /\ d.blockWidth.n > cw THEN d.blockWidth.n ELSE cw

\* lines 305-312
canvasWidthAfter(cw, d) ==
    LET byBlock == IF d.blockWidth.t = "number" /\ d.blockWidth.n > cw
                   THEN d.blockWidth.n ELSE cw
    IN  IF d.width > byBlock THEN d.width ELSE byBlock

\* the padding between blocks left out
canvasHeightWithoutPadding(ch, d) == ch + d.blockHeight

\* line 315
canvasHeightAfter(ch, d) == ch + d.blockHeight + padding

(***************************************************************************)
(* Sprite#makeMap: the drawing and substitution pass.                      *)
(***************************************************************************)
\* Math.round(a/2 - b/2)
RoundHalfDiff(a, b) == (a - b + 1) \div 2

\* Sprite#createImage: an image is at least 5 x 5
createImage(width, height) ==
    [width  |-> IF width > 5 THEN width ELSE 5,
     height |-> IF height > 5 THEN height ELSE 5]

\* lines 351-353: "100%" becomes the canvas width
resolveBlockWidth(d, cw) ==
    IF d.blockWidth.t = "string" /\ d.blockWidth.s = "100%"
    THEN [d EXCEPT !.blockWidth = Num(cw)] ELSE d

\* lines 355-360
posXOf(d) == IF d.width > d.imageWidth THEN RoundHalfDiff(d.width, d.imageWidth) ELSE 0

\* valign defaulting to top instead of middle
posYTopByDefault(d) ==
    IF d.height > d.imageHeight /\ d.valign = "bottom"
    THEN d.height - d.imageHeight ELSE 0

\* lines 362-375
posYOf(d) ==
    IF d.height > d.imageHeight
    THEN CASE d.valign = "top"    -> 0
           [] d.valign = "bottom" -> d.height - d.imageHeight
           [] OTHER               -> RoundHalfDiff(d.height, d.imageHeight)
    ELSE 0

\* align:right put at the right edge of the canvas
alignXPastEdge(d, cw) ==
    CASE d.align = "center" -> RoundHalfDiff(cw, d.width)
      [] d.align = "right"  -> cw
      [] OTHER              -> 0

\* lines 403-416
alignX(d, cw) ==
    CASE d.align = "center" -> RoundHalfDiff(cw, d.width)
      [] d.align = "right"  -> cw - d.width
      [] OTHER              -> 0

\* lines 430-437: the copies of the repeat:x loop, from curX
RECURSIVE tilesX(_, _, _)
tilesX(d, curX, curY) ==
    IF ~(curX < d.blockWidth.n) THEN <<>>
    ELSE LET remainder == IF curX + d.width < d.blockWidth.n
                          THEN d.width ELSE d.blockWidth.n - curX
         IN  <<[x |-> curX, y |-> curY, w |-> remainder, h |-> d.height]>>
             \o tilesX(d, curX + d.width, curY)

\* the last copy of the repeat:y loop not clipped
RECURSIVE tilesYUnclipped(_, _, _, _)
tilesYUnclipped(d, curX, curY, startY) ==
    IF ~(curY < startY + d.blockHeight) THEN <<>>
    ELSE <<[x |-> curX, y |-> curY, w |-> d.width, h |-> d.height]>>
         \o tilesYUnclipped(d, curX, curY + d.height, startY)

\* lines 443-448: the copies of the repeat:y loop, from curY
RECURSIVE tilesY(_, _, _, _)
tilesY(d, curX, curY, startY) ==
    IF ~(curY < startY + d.blockHeight) THEN <<>>
    ELSE LET remainder == IF curY + d.height < startY + d.blockHeight
                          THEN d.height ELSE startY + d.blockHeight - curY
         IN  <<[x |-> curX, y |-> curY, w |-> d.width, h |-> remainder]>>
             \o tilesY(d, curX, curY + remainder, startY)

\* the repeat loop of a spec never ends: its step is not positive
loopsForever(d) ==
    \/ d.repeat = "x" /\ 0 < d.blockWidth.n /\ d.width <= 0
    \/ d.repeat = "y" /\ 0 < d.blockHeight /\ d.height <= 0

\* lines 418-450: the rectangles copied onto the sprite for one spec
copiesOf(d, cw, curY) ==
    CASE d.repeat = "no" -> <<[x |-> alignX(d, cw), y |-> curY, w |-> d.width, h |-> d.height]>>
      [] d.repeat = "x"  -> tilesX(d, 0, curY)
      [] OTHER           -> tilesY(d, alignX(d, cw), curY, curY)

RECURSIVE SumH(_)
SumH(copies) == IF copies = <<>> THEN 0 ELSE Head(copies).h + SumH(Tail(copies))

\* the cursor moved by the height of one tile for every repeat mode
curYAfterOneTile(d, curY) == curY + d.height + padding

\* curY after the spec
curYAfter(d, curY) ==
    CASE d.repeat = "y" -> curY + SumH(tilesY(d, 0, curY, curY)) + padding
      [] OTHER          -> curY + d.height + padding

\* both margins of a side pair rounded down
marginsRoundedDown(d) ==
    IF "totalwidth" \in DOMAIN d /\ "totalheight" \in DOMAIN d
       /\ d.totalwidth # 0 /\ d.totalheight # 0
    THEN LET margw == d.totalwidth - d.imageWidth
             margh == d.totalheight - d.imageHeight
         IN  [emitted |-> TRUE,
              top |-> margh \div 2, right |-> margw \div 2,
              bottom |-> margh \div 2, left |-> margw \div 2,
              height |-> d.imageHeight + (IF "padheight" \in DOMAIN d THEN d.padheight ELSE 0),
              width |-> d.imageWidth + (IF "padwidth" \in DOMAIN d THEN d.padwidth ELSE 0)]
    ELSE [emitted |-> FALSE]

\* lines 470-492: the numbers of the margin, height and width declarations
marginsOf(d) ==
    IF "totalwidth" \in DOMAIN d /\ "totalheight" \in DOMAIN d
       /\ d.totalwidth # 0 /\ d.totalheight # 0
    THEN LET margw == d.totalwidth - d.imageWidth
             margh == d.totalheight - d.imageHeight
         IN  [emitted |-> TRUE,
              top |-> (margh + 1) \div 2, right |-> margw \div 2,
              bottom |-> margh \div 2, left |-> (margw + 1) \div 2,
              height |-> d.imageHeight + (IF "padheight" \in DOMAIN d THEN d.padheight ELSE 0),
              width |-> d.imageWidth + (IF "padwidth" \in DOMAIN d THEN d.padwidth ELSE 0)]
    ELSE [emitted |-> FALSE]

\* lines 494-499
appendMargin(d) ==
    LET m == marginsOf(d)
    IN  IF m.emitted
        THEN ";margin:" \o ToString(m.top) \o "px "
                        \o ToString(m.right) \o "px "
                        \o ToString(m.bottom) \o "px "
                        \o ToString(m.left) \o "px !important;"
             \o "height:" \o ToString(m.height) \o "px !important;"
             \o "width:" \o ToString(m.width) \o "px !important"
        ELSE ""

\* the X component always the pixel offset of the block
replacementByOffset(d, startX, startY) ==
    "-" \o ToString(startX) \o "px" \o " " \o "-" \o ToString(startY) \o "px"
    \o appendMargin(d)

\* align:center treated as every other alignment
replacementWithoutCenter(d, startX, startY) ==
    LET cssPlacementX == CASE d.align = "right"  -> "100%"
                           [] OTHER              -> "-" \o ToString(startX) \o "px"
        cssPlacementY == "-" \o ToString(startY) \o "px"
    IN  cssPlacementX \o " " \o cssPlacementY \o appendMargin(d)

\* lines 453-464 and 501: the text put in place of the placeholder
replacementOf(d, startX, startY) ==
    LET cssPlacementX == CASE d.align = "right"  -> "100%"
                           [] d.align = "center" -> "center"
                           [] OTHER              -> "-" \o ToString(startX) \o "px"
        cssPlacementY == "-" \o ToString(startY) \o "px"
    IN  cssPlacementX \o " " \o cssPlacementY \o appendMargin(d)

\* the RegExp of line 453 matches the placeholder between single quotes
QuotedPlaceholder(id) == "'" \o PlaceholderText(id) \o "'"

\* css.replace(re, replacement) without the "g" flag: the first match only
replaceFirst(css, id, replacement) ==
    [i \in 1..Len(css) |->
        IF css[i] = QuotedPlaceholder(id)
           /\ \A k \in 1..(i - 1) : css[k] # QuotedPlaceholder(id)
        THEN replacement ELSE css[i]]

\* css.replace(re, replacement) with the "g" flag
replaceAll(css, id, replacement) ==
    [i \in 1..Len(css) |-> IF css[i] = QuotedPlaceholder(id) THEN replacement ELSE css[i]]

\* what makeMap does for one spec at vertical position curY
drawOne(d, cw, curY) ==
    LET startX == IF d.repeat = "x" THEN 0 ELSE alignX(d, cw)
    IN  [id |-> d._img_id,
         block |-> createImage(d.width, d.height),
         resize |-> d.resize,
         posX |-> posXOf(d), posY |-> posYOf(d),
         startX |-> startX, startY |-> curY,
         copies |-> copiesOf(d, cw, curY),
         margins |-> marginsOf(d),
         replacement |-> replacementOf(d, startX, curY)]

\* the for loop of lines 347-502 from index i on:
\* [hung, processedImages, draws, css, curY]
RECURSIVE makeMapFrom(_, _, _, _, _, _)
makeMapFrom(procs, i, cw, curY, draws, css) ==
    IF i > Len(procs)
    THEN [hung |-> FALSE, processedImages |-> procs, draws |-> draws, css |-> css, curY |-> curY]
    ELSE LET d == resolveBlockWidth(procs[i], cw)
             resolved == [procs EXCEPT ![i] = d]
         IN  IF loopsForever(d)
             THEN [hung |-> TRUE, processedImages |-> resolved, draws |-> draws,
                   css |-> css, curY |-> curY]
             ELSE LET dr == drawOne(d, cw, curY)
                  IN  makeMapFrom(resolved, i + 1, cw, curYAfter(d, curY),
                                  Append(draws, dr),
                                  replaceAll(css, d._img_id, dr.replacement))

makeMap(procs, cw, ch, css) == makeMapFrom(procs, 1, cw, 0, <<>>, css)

(***************************************************************************)
(* The implementation of src/stylus-sprite.js, which writes PNG only,      *)
(* where its text is not the text of the implementation above.             *)
(***************************************************************************)
\* the options of Sprite.prototype.keys in src/stylus-sprite.js
PngOnlyKeys ==
    {"width", "height", "align", "valign", "resize", "repeat",
     "limit-repeat-x", "limit-repeat-y"}

\* curX by align: "left" falls through to the default
alignXPngOnly(d, cw) ==
    CASE d.align = "center" -> RoundHalfDiff(cw, d.width)
      [] d.align = "right"  -> cw - d.width
      [] OTHER              -> 0

\* the text put in place of the placeholder: the switch on align assigns
\* startX after cssPlacementX has been built from it
replacementOfPngOnly(d, startX, startY) ==
    LET cssPlacementX == "-" \o ToString(startX) \o "px"
        cssPlacementY == "-" \o ToString(startY) \o "px"
    IN  cssPlacementX \o " " \o cssPlacementY

(***************************************************************************)
(* Inputs.                                                                 *)
(***************************************************************************)
\* the image files under image_root and their natural sizes
Files ==
    [ a |-> [name |-> "a.png", width |-> 20, height |-> 20],
      b |-> [name |-> "b.png", width |-> 10, height |-> 10] ]

Filenames == {Files[f].name : f \in DOMAIN Files}

ImageOf(filename) ==
    LET f == CHOOSE f \in DOMAIN Files : Files[f].name = filename
    IN  [width |-> Files[f].width, height |-> Files[f].height]

\* pathlib.join(image_root, filename) with the default image_root "", as
\* an atom sequence
PathOf(filename) ==
    CASE filename = "a.png" -> <<"a", ".", "png">>
      [] filename = "b.png" -> <<"b", ".", "png">>
      [] filename = "c.bmp" -> <<"c", ".", "bmp">>

\* Sprite#openImage: the decoder chosen by the switch, "throw" for its default
openImage(image) ==
    LET parts == Split(image, ".")
        ext   == Str(ToLowerCase(parts[Len(parts)]))
    IN  CASE ext = "png"              -> "openPng"
          [] ext = "gif"              -> "openGif"
          [] ext \in {"jpg", "jpeg"}  -> "openJpeg"
          [] OTHER                    -> "throw"

\* the file names of the runs with a file no decoder is chosen for
ExtFilenames == {"a.png", "c.bmp"}

\* option strings, as atom sequences
OptNone        == <<>>
OptRightH40    == <<"align", ":", "right", ";", " ", "height", ":", "40">>
OptH40Right    == <<" ", "height", " ", ":", " ", "40", " ", ";", "align", ":", "right">>
OptUpper       == <<"HEIGHT", ":", "40", ";", "Align", ":", "right", ";">>
OptWidth5      == <<"width", ":", "5">>
OptRepeatY     == <<"repeat", ":", "y">>
OptTotals      == <<"totalwidth", ":", "30", ";", "totalheight", ":", "25">>
OptTotalsRev   == <<"totalheight", ":", " ", "25", ";", "totalwidth", " ", ":", "30">>
OptBogus       == <<"Bogus", ":", "1">>
OptConstructor == <<"constructor", ":", "x">>
OptProto       == <<"__proto__", ":", "x">>
OptWidthAbc    == <<"width", ":", "abc">>
OptWidth30     == <<"width", ":", "30">>
OptWidth5Then30  == <<"width", ":", "5", ";", "width", ":", " ", "30">>
OptWidthAbcThen5 == <<"width", ":", "abc", ";", "width", ":", "5">>
OptWidthInf    == <<"width", ":", "Infinity">>
OptWidthEmpty  == <<"width", ":", " ">>
OptWidthAbsent == <<"width">>
OptResizeFalse  == <<"resize", ":", "false">>
OptResizeZero   == <<"resize", ":", " ", "0">>
OptResizeEmpty  == <<"resize", ":">>
OptResizeAbsent == <<"resize">>
OptResizeTrue   == <<"resize", ":", "true">>
OptResizeYes    == <<"resize", ":", "yes">>
OptCenter       == <<"align", ":", "center">>
OptLeft         == <<"align", ":", "left">>
OptRepeatX30    == <<"repeat", ":", "x", ";", "limit-repeat-x", ":", "30">>
OptRepeatXNeg   == <<"repeat", ":", "x", ";", "limit-repeat-x", ":", "-5">>
OptHeightNeg    == <<"height", ":", "-5">>
OptWidthNeg     == <<"width", ":", "-5">>
OptRepeatX      == <<"repeat", ":", "x">>
OptRepeatY25    == <<"repeat", ":", "y", ";", "limit-repeat-y", ":", "25">>
OptRepeatYNeg   == <<"repeat", ":", "y", ";", "limit-repeat-y", ":", "-5">>
OptRepeatYHeightNeg == <<"repeat", ":", "y", ";", "height", ":", "-5">>
OptTotalsZero   == <<"totalwidth", ":", "0", ";", "totalheight", ":", "25">>
OptTotalsSmall  == <<"totalwidth", ":", "8", ";", "totalheight", ":", "5", ";",
                     "padwidth", ":", "5">>

\* the option strings of the references that builds process
OptionStrings == {OptNone, OptRightH40, OptWidth5, OptRepeatY, OptBogus}

\* the option strings of the references of the evaluation pass alone
RegOptionStrings ==
    {OptNone, OptRightH40, OptH40Right, OptUpper, OptWidth5, OptRepeatY, OptTotals,
     OptTotalsRev, OptBogus, OptConstructor, OptProto,
     OptWidthAbc, OptWidthInf, OptWidthEmpty, OptWidthAbsent,
     OptWidth30, OptWidth5Then30, OptWidthAbcThen5,
     OptResizeFalse, OptResizeZero, OptResizeEmpty, OptResizeAbsent,
     OptResizeTrue, OptResizeYes}

\* values of options.output_file
OutDefault  == <<>>
OutUpper    == <<"img/sprite", ".", "PNG">>
OutJpeg     == <<"sprite", ".", "jpeg">>
OutJpg      == <<"sprite", ".", "Jpg">>
OutGif      == <<"sprite", ".", "min", ".", "gif">>
OutBmp      == <<"sprite", ".", "bmp">>
OutNoExt    == <<"sprite">>
OutDotDir   == <<"v1", ".", "png/sprite">>
OutEndsDot  == <<"sprite", ".">>
OutBareName == <<"gif">>

OutputFiles ==
    {OutDefault, OutUpper, OutJpeg, OutJpg, OutGif, OutBmp, OutNoExt, OutDotDir,
     OutEndsDot, OutBareName}

\* the option strings of the references of the geometry runs, all to one file
GeoOptionStrings ==
    {OptNone, OptCenter, OptLeft, OptRightH40, OptRepeatX30, OptRepeatXNeg,
     OptHeightNeg, OptWidthNeg}

GeoFilenames == {"a.png"}

\* the option strings of the runs on tiling and on margins
TileOptionStrings ==
    {OptRepeatX, OptRepeatX30, OptRepeatY25, OptRepeatYNeg, OptTotals, OptTotalsSmall,
     OptTotalsZero}

\* the option strings of the runs in which every decode and write ends
LiveOptionStrings == {OptNone, OptRightH40, OptRepeatYHeightNeg}

\* the option strings of the runs with a file no decoder is chosen for
ExtOptionStrings == {OptNone, OptWidth5}

\* The text handed to build.  It holds placeholders as the host renders
\* the string spritefunc returned (between single quotes), one of them
\* twice, and one placeholder exactly as spritefunc returned it.
CssText ==
    << ".a{background:", QuotedPlaceholder(1), "}",
       ".b{background:", QuotedPlaceholder(2), "}",
       ".c{background:", QuotedPlaceholder(1), "}",
       ".d{background:", PlaceholderText(1), "}" >>

CssTexts == {CssText}

(***************************************************************************)
(* The state machine.                                                      *)
(***************************************************************************)
Init ==
    /\ sprite = Sprite(OutDefault)
    /\ images = <<>>
    /\ processedImages = <<>>
    /\ _img_id = 0
    /\ canvasWidth = 0
    /\ canvasHeight = 0
    /\ builds = <<>>
    /\ outputFile = <<>>
    /\ regs = <<>>
    /\ process = "running"

NoImage == [_img_id |-> 0]

\* A call of spritefunc by the host, for the reference on line Len(regs) + 1.
Register(filename, options) ==
    /\ sprite.state = "constructed"
    /\ process = "running"
    /\ Len(regs) < MaxRegs
    /\ LET r == spritefunc(images, _img_id, filename, Len(regs) + 1, options)
       IN  /\ images' = r.images
           /\ _img_id' = r._img_id
           /\ regs' = Append(regs,
                  [filename |-> filename, options |-> options, ok |-> r.ok,
                   msg |-> r.msg, ret |-> r.ret, id |-> r.id, hash |-> r.hash,
                   rec |-> r.rec, added |-> r.images # images,
                   counted |-> r._img_id # _img_id, builds |-> Len(builds)])
    /\ UNCHANGED <<sprite, processedImages, canvasWidth, canvasHeight, builds,
                   outputFile, process>>

\* the last element taken instead of the first
pop(imgs) == [elm |-> imgs[Len(imgs)], rest |-> SubSeq(imgs, 1, Len(imgs) - 1)]

\* the first element read and left in the array
shiftKeeping(imgs) == [elm |-> Head(imgs), rest |-> imgs]

\* this.images.shift(): the first element, and the array without it
shift(imgs) == [elm |-> Head(imgs), rest |-> Tail(imgs)]

\* Sprite#build after its "if(err)": lines 250-256, for build b of bs.
\* Either the next image is handed to processImage, which opens it, or
\* makeMap runs and starts the save.  openImage throws for a file name
\* without a decoder: out of build to its caller, who catches the error
\* or not, when the caller called build, and uncaught out of a callback
\* of the event loop otherwise.
Continue(b, bs) ==
    IF images # <<>> /\ openImage(PathOf(shift(images).elm.filename)) = "throw"
    THEN /\ images' = shift(images).rest
         /\ builds' = [bs EXCEPT ![b].pc = "thrown", ![b].threw = "Unknown file type",
                                 ![b].cur = shift(images).elm]
         /\ process' \in IF bs[b].pc = "new" THEN {"running", "crashed"} ELSE {"crashed"}
         /\ UNCHANGED processedImages
    ELSE IF images # <<>>
    THEN /\ images' = shift(images).rest
         /\ builds' = [bs EXCEPT ![b].pc = "decoding", ![b].cur = shift(images).elm,
                                 ![b].started = Append(@, shift(images).elm._img_id)]
         /\ UNCHANGED <<processedImages, process>>
    ELSE LET m == makeMap(processedImages, canvasWidth, canvasHeight, bs[b].css)
         IN  /\ images' = images
             /\ processedImages' = m.processedImages
             /\ process' = IF m.hung THEN "hung" ELSE process
             /\ builds' = [bs EXCEPT
                   ![b].pc = IF m.hung THEN "makeMap" ELSE "saving",
                   ![b].cur = NoImage,
                   ![b].drew = TRUE,
                   ![b].sprite = createImage(canvasWidth, canvasHeight),
                   ![b].canvas = [width |-> canvasWidth, height |-> canvasHeight],
                   ![b].specs = _img_id,
                   ![b].draws = m.draws,
                   ![b].curY = m.curY,
                   ![b].out = m.css]

\* sprite.build(css, callback)
Build(css) ==
    /\ sprite.state = "constructed"
    /\ process = "running"
    /\ Len(builds) < MaxBuilds
    /\ Continue(Len(builds) + 1,
                Append([b \in DOMAIN builds |->
                          [builds[b] EXCEPT !.overlapped = @ \/ builds[b].pc # "done"]],
                  [css |-> css, pc |-> "new", cur |-> NoImage, cb |-> <<>>,
                   failed |-> FALSE, drew |-> FALSE, started |-> <<>>,
                   decoded |-> <<>>, dropped |-> <<>>, threw |-> "",
                   regsBefore |-> Len(regs),
                   overlapped |-> \E b \in DOMAIN builds : builds[b].pc # "done",
                   sprite |-> createImage(0, 0),
                   canvas |-> [width |-> 0, height |-> 0], specs |-> 0,
                   draws |-> <<>>, curY |-> 0, out |-> <<>>]))
    /\ UNCHANGED <<sprite, _img_id, canvasWidth, canvasHeight, outputFile, regs>>

\* The decode of build b's image succeeds: lines 283-324.
DecodeOk(b) ==
    /\ process = "running"
    /\ builds[b].pc = "decoding"
    /\ LET d == resolveImage(builds[b].cur, ImageOf(builds[b].cur.filename))
       IN  /\ canvasWidth' = canvasWidthAfter(canvasWidth, d)
           /\ canvasHeight' = canvasHeightAfter(canvasHeight, d)
           /\ processedImages' = Append(processedImages, d)
           /\ builds' = [builds EXCEPT ![b].pc = "tick", ![b].cur = NoImage,
                                       ![b].decoded = Append(@, d._img_id)]
    /\ UNCHANGED <<sprite, images, _img_id, outputFile, regs, process>>

\* process.nextTick(callback): build(css, callback) runs again
Tick(b) ==
    /\ process = "running"
    /\ builds[b].pc = "tick"
    /\ Continue(b, builds)
    /\ UNCHANGED <<sprite, _img_id, canvasWidth, canvasHeight, outputFile, regs>>

\* The decode of build b's image fails: lines 276-281, then build(css,
\* callback, err).  The caller's callback returns, or throws the error it
\* is given: an uncaught exception ends the process.
DecodeFail(b, throws) ==
    /\ process = "running"
    /\ builds[b].pc = "decoding"
    /\ LET err == [err |-> TRUE,
                   msg |-> "ENOENT; CSS line nr #" \o ToString(builds[b].cur.lineno),
                   css |-> <<>>]
           called == [builds EXCEPT ![b].cb = Append(@, err), ![b].failed = TRUE,
                                    ![b].dropped = Append(@, builds[b].cur._img_id),
                                    ![b].cur = NoImage]
       IN  IF throws
           THEN /\ builds' = [called EXCEPT ![b].pc = "thrown"]
                /\ process' = "crashed"
                /\ UNCHANGED <<images, processedImages>>
           ELSE Continue(b, called)
    /\ UNCHANGED <<sprite, _img_id, canvasWidth, canvasHeight, outputFile, regs>>

\* The write of the sprite file ends, with or without an error: the
\* callback of savePng ignores its argument and runs save_callback.
SaveDone(b, written) ==
    /\ process = "running"
    /\ builds[b].pc = "saving"
    /\ outputFile' = IF written THEN Append(outputFile, b) ELSE outputFile
    /\ builds' = [builds EXCEPT
          ![b].pc = "done",
          ![b].cb = Append(@, [err |-> FALSE, msg |-> "", css |-> builds[b].out])]
    /\ UNCHANGED <<sprite, images, processedImages, _img_id, canvasWidth, canvasHeight,
                   regs, process>>

Next ==
    \/ \E f \in Filenames, o \in OptionStrings : Register(f, o)
    \/ \E css \in CssTexts : Build(css)
    \/ \E b \in DOMAIN builds : DecodeOk(b)
    \/ \E b \in DOMAIN builds : Tick(b)
    \/ \E b \in DOMAIN builds, throws \in BOOLEAN : DecodeFail(b, throws)
    \/ \E b \in DOMAIN builds, written \in BOOLEAN : SaveDone(b, written)

Spec == Init /\ [][Next]_vars

\* References with options on alignment, repetition and size, and builds.
NextGeo ==
    \/ \E f \in GeoFilenames, o \in GeoOptionStrings : Register(f, o)
    \/ \E css \in CssTexts : Build(css)
    \/ \E b \in DOMAIN builds : DecodeOk(b)
    \/ \E b \in DOMAIN builds : Tick(b)
    \/ \E b \in DOMAIN builds, throws \in BOOLEAN : DecodeFail(b, throws)
    \/ \E b \in DOMAIN builds, written \in BOOLEAN : SaveDone(b, written)

SpecGeo == Init /\ [][NextGeo]_vars

\* References with repetition and with total sizes, and builds.
NextTile ==
    \/ \E f \in Filenames, o \in TileOptionStrings : Register(f, o)
    \/ \E css \in CssTexts : Build(css)
    \/ \E b \in DOMAIN builds : DecodeOk(b)
    \/ \E b \in DOMAIN builds : Tick(b)
    \/ \E b \in DOMAIN builds, throws \in BOOLEAN : DecodeFail(b, throws)
    \/ \E b \in DOMAIN builds, written \in BOOLEAN : SaveDone(b, written)

SpecTile == Init /\ [][NextTile]_vars

\* References to a file that no decoder is chosen for, and builds.
NextExt ==
    \/ \E f \in ExtFilenames, o \in ExtOptionStrings : Register(f, o)
    \/ \E css \in CssTexts : Build(css)
    \/ \E b \in DOMAIN builds : DecodeOk(b)
    \/ \E b \in DOMAIN builds : Tick(b)
    \/ \E b \in DOMAIN builds, throws \in BOOLEAN : DecodeFail(b, throws)
    \/ \E b \in DOMAIN builds, written \in BOOLEAN : SaveDone(b, written)

SpecExt == Init /\ [][NextExt]_vars

\* References and builds whose files all decode: no decode fails.
NextLive ==
    \/ \E f \in Filenames, o \in LiveOptionStrings : Register(f, o)
    \/ \E css \in CssTexts : Build(css)
    \/ \E b \in DOMAIN builds : DecodeOk(b)
    \/ \E b \in DOMAIN builds : Tick(b)
    \/ \E b \in DOMAIN builds, written \in BOOLEAN : SaveDone(b, written)

\* gd calls back for every decode and every write it was asked for, and
\* node runs every callback given to process.nextTick
Fairness ==
    \A b \in 1..MaxBuilds :
        /\ WF_vars(b \in DOMAIN builds /\ DecodeOk(b))
        /\ WF_vars(b \in DOMAIN builds /\ Tick(b))
        /\ WF_vars(b \in DOMAIN builds /\ \E written \in BOOLEAN : SaveDone(b, written))

SpecLive == Init /\ [][NextLive]_vars /\ Fairness

\* new Sprite({output_file: ...})
Construct(output_file) ==
    /\ sprite.state = "new"
    /\ sprite' = Sprite(output_file)
    /\ UNCHANGED <<images, processedImages, _img_id, canvasWidth, canvasHeight,
                   builds, outputFile, regs, process>>

\* before the constructor runs
InitNew ==
    /\ sprite = [state |-> "new", options |-> <<>>, output_file |-> <<>>,
                 output_format |-> "", msg |-> ""]
    /\ images = <<>>
    /\ processedImages = <<>>
    /\ _img_id = 0
    /\ canvasWidth = 0
    /\ canvasHeight = 0
    /\ builds = <<>>
    /\ outputFile = <<>>
    /\ regs = <<>>
    /\ process = "running"

\* The construction with an output file, then references.
NextNew ==
    \/ \E output_file \in OutputFiles : Construct(output_file)
    \/ \E f \in Filenames, o \in OptionStrings : Register(f, o)

SpecNew == InitNew /\ [][NextNew]_vars

\* The evaluation pass of the host alone: references, no build.
NextReg == \E f \in Filenames, o \in RegOptionStrings : Register(f, o)

SpecReg == Init /\ [][NextReg]_vars

(***************************************************************************)
(* Properties.                                                             *)
(***************************************************************************)
Range(seq) == {seq[i] : i \in DOMAIN seq}

\* C1: two calls of spritefunc whose merged records have the same signature
\* return the same placeholder, also when a build has started or finished
\* in between.
C1_SameSignatureSamePlaceholder ==
    \A i, j \in DOMAIN regs :
        (regs[i].ok /\ regs[j].ok /\ regs[i].hash = regs[j].hash)
            => regs[i].ret = regs[j].ret

\* The clauses of an option string with all blanks taken out.
ClauseList(options) ==
    Split(SelectSeq(options, LAMBDA atom : atom # " "), ";")

\* The two option strings hold the same clauses with distinct keys, up to
\* the order of the clauses and the blanks around keys and values.
SameClauses(o1, o2) ==
    /\ Len(ClauseList(o1)) = Len(ClauseList(o2))
    /\ Range(ClauseList(o1)) = Range(ClauseList(o2))
    /\ \A m \in DOMAIN ClauseList(o1) : ClauseList(o1)[m] # <<>>
    /\ \A m, n \in DOMAIN ClauseList(o1) :
          m # n => Head(ClauseList(o1)[m]) # Head(ClauseList(o1)[n])

\* C2: before any build, a reference to the same file whose option string
\* holds the same clauses in another order, or with other blanks around
\* keys and values, gets the same placeholder and adds no spec.
C2_OrderAndBlanksDoNotMatter ==
    \A i, j \in DOMAIN regs :
        ( /\ i < j
          /\ regs[i].builds = 0 /\ regs[j].builds = 0
          /\ regs[i].ok
          /\ regs[i].filename = regs[j].filename
          /\ SameClauses(regs[i].options, regs[j].options) )
        => /\ regs[j].ok
           /\ regs[j].ret = regs[i].ret
           /\ ~regs[j].added

C2_Witness ==
    \E i, j \in DOMAIN regs :
        /\ i < j
        /\ regs[i].ok /\ regs[j].ok
        /\ regs[i].filename = regs[j].filename
        /\ regs[i].options # regs[j].options
        /\ regs[i].options # <<>>
        /\ SameClauses(regs[i].options, regs[j].options)
        /\ regs[j].ret = regs[i].ret
        /\ Len(images) = 1

\* C3: references to two different files, or to one file with merged
\* records that differ in the value of a key, get two different
\* placeholders, and two specs are created; before any build both are in
\* the registry.
C3_DifferentRecordsDifferentPlaceholders ==
    \A i, j \in DOMAIN regs :
        ( /\ i < j
          /\ regs[i].ok /\ regs[j].ok
          /\ \/ regs[i].filename # regs[j].filename
             \/ regs[i].rec # regs[j].rec )
        => /\ regs[i].ret # regs[j].ret
           /\ regs[i].id # regs[j].id
           /\ _img_id >= 2
           /\ builds = <<>> =>
                 \E m, n \in DOMAIN images :
                    /\ m # n
                    /\ images[m]._img_id = regs[i].id
                    /\ images[n]._img_id = regs[j].id

C3_Witness ==
    \E i, j \in DOMAIN regs :
        /\ i < j /\ regs[i].ok /\ regs[j].ok
        /\ regs[i].filename = regs[j].filename
        /\ regs[i].rec # regs[j].rec
        /\ regs[i].ret # regs[j].ret
        /\ regs[j].builds > 0

\* C4: a build in which the decode of an image failed does not run the
\* drawing pass and does not write the sprite file.
C4_FailedBuildDrawsAndWritesNothing ==
    \A b \in DOMAIN builds :
        builds[b].failed => ~builds[b].drew /\ b \notin Range(outputFile)

\* C5: every build calls its callback at most once, with an error or with
\* the substituted text.
C5_CallbackAtMostOnce ==
    \A b \in DOMAIN builds : Len(builds[b].cb) <= 1

Holds(text, token) == \E k \in DOMAIN text : text[k] = token

\* the build has completed its drawing and substitution pass
Drawn(b) == builds[b].drew /\ builds[b].pc \in {"saving", "done"}

\* the build has completed with the success callback and reported no error
Succeeded(b) == builds[b].pc = "done" /\ ~builds[b].failed

\* the build ran alone, and no decode has failed on the instance up to it
RanAlone(b) ==
    /\ ~builds[b].overlapped
    /\ \A c \in DOMAIN builds : c <= b => ~builds[c].failed

RECURSIVE SumBlocks(_)
SumBlocks(procs) ==
    IF procs = <<>> THEN 0
    ELSE Head(procs).blockHeight + padding + SumBlocks(Tail(procs))

\* every spec created so far is resolved: none waits, none is being
\* decoded, none was dropped by a failed decode
AllResolved ==
    /\ images = <<>>
    /\ \A b \in DOMAIN builds : builds[b].pc # "decoding" /\ ~builds[b].failed

\* C7: canvasHeight is the sum of blockHeight + padding over the resolved
\* specs, each counted once, a repeat:y spec included; when every decode
\* has succeeded these are all the registered specs, and they are in
\* registration order when no two builds overlapped.
C7_CanvasHeightIsSumOfBlocks ==
    /\ canvasHeight = SumBlocks(processedImages)
    /\ AllResolved =>
          /\ Len(processedImages) = _img_id
          /\ {processedImages[n]._img_id : n \in DOMAIN processedImages} = 1.._img_id
    /\ (\A b \in DOMAIN builds : ~builds[b].failed /\ ~builds[b].overlapped) =>
          \A m, n \in DOMAIN processedImages :
              m < n => processedImages[m]._img_id < processedImages[n]._img_id

C7_Witness ==
    /\ AllResolved
    /\ Len(processedImages) = 2
    /\ processedImages[1].repeat = "y"
    /\ processedImages[1].blockHeight = 300
    /\ processedImages[2].repeat = "no"
    /\ canvasHeight = 300 + padding + processedImages[2].height + padding
    /\ \E b \in DOMAIN builds : Drawn(b) /\ Len(builds[b].draws[1].copies) > 1

\* C8 as stated: canvasWidth is at least the natural width of every
\* resolved image.
C8_CanvasWidthCoversNaturalWidth ==
    \A n \in DOMAIN processedImages : canvasWidth >= processedImages[n].imageWidth

\* the merged record a spec was registered with
RegisteredAs(d) ==
    regs[CHOOSE i \in DOMAIN regs : regs[i].ok /\ regs[i].hash = d.hash].rec

\* C8 amended: canvasWidth is at least the resolved width of every resolved
\* spec, which is the requested width when one other than 0 was given and
\* the natural width of the image otherwise.
C8_CanvasWidthCoversResolvedWidth ==
    \A n \in DOMAIN processedImages :
        LET d == processedImages[n]
        IN  /\ canvasWidth >= d.width
            /\ d.width = IF RegisteredAs(d).width # 0
                         THEN RegisteredAs(d).width ELSE d.imageWidth

C8_Witness ==
    \E n \in DOMAIN processedImages :
        /\ RegisteredAs(processedImages[n]).width = 5
        /\ processedImages[n].imageWidth = 20
        /\ canvasWidth = 5

\* build b and the builds before it ran one at a time, every decode succeeding
RanInSequence(b) ==
    \A c \in DOMAIN builds : c <= b => ~builds[c].failed /\ ~builds[c].overlapped

HasKeyOutsideSchema(options) ==
    \E n \in DOMAIN Split(options, ";") :
        /\ ClauseKey(Split(options, ";")[n]) # ""
        /\ ClauseKey(Split(options, ";")[n]) \notin DOMAIN keys

\* C10: a reference whose option string has a key outside the schema fails
\* with an error naming the key, adds no spec, advances no counter and
\* returns no placeholder.
C10_KeyOutsideSchemaIsRejected ==
    \A i \in DOMAIN regs :
        HasKeyOutsideSchema(regs[i].options) =>
            /\ ~regs[i].ok
            /\ \E n \in DOMAIN Split(regs[i].options, ";") :
                  regs[i].msg =
                      "Invalid key '" \o ClauseKey(Split(regs[i].options, ";")[n]) \o "'"
            /\ ~regs[i].added /\ ~regs[i].counted
            /\ regs[i].ret = ""

\* the clauses of an option string whose key is a numeric key of the schema
NumericClauses(options) ==
    SelectSeq(Split(options, ";"),
              LAMBDA c : ClauseKey(c) \in DOMAIN keys /\ keys[ClauseKey(c)].type = "number")

\* the clause gives its key a value that is a finite decimal numeral
HasFiniteNumeral(clause) ==
    /\ Len(Split(clause, ":")) > 1
    /\ Str(Trim(Join(Tail(Split(clause, ":")), ":"))) \in NumeralText

\* C11: a reference with a numeric key whose value is no finite number
\* (other text, Infinity, an empty value, no value at all) fails with an
\* error naming the key and registers nothing.
C11_NumericValueMustBeFinite ==
    \A i \in DOMAIN regs :
        \A n \in DOMAIN NumericClauses(regs[i].options) :
            LET clause == NumericClauses(regs[i].options)[n]
            IN  ~HasFiniteNumeral(clause) =>
                   /\ ~regs[i].ok
                   /\ regs[i].msg = "Invalid number value '" \o ClauseKey(clause)
                                        \o "' for " \o ClauseKey(clause)
                   /\ ~regs[i].added /\ ~regs[i].counted

\* the option string is one clause for the key resize
OnlyResize(options) ==
    /\ Len(ClauseList(options)) = 1
    /\ ClauseList(options)[1] # <<>>
    /\ ClauseList(options)[1][1] = "resize"

\* its value is spelled "false" or "0", is empty, or is absent
SpelledFalse(options) ==
    LET clause == ClauseList(options)[1]
    IN  Len(clause) <= 2 \/ (Len(clause) = 3 /\ clause[3] \in {"false", "0"})

\* C12: resize is false for the values "false", "0", an empty value and no
\* value, true for every other value; before any build two references to
\* one file that spell the same meaning differently share one placeholder.
C12_ResizeSpellings ==
    /\ \A i \in DOMAIN regs :
          OnlyResize(regs[i].options) =>
             /\ regs[i].ok
             /\ regs[i].rec.resize = ~SpelledFalse(regs[i].options)
    /\ \A i, j \in DOMAIN regs :
          ( /\ i < j
            /\ regs[i].builds = 0 /\ regs[j].builds = 0
            /\ regs[i].filename = regs[j].filename
            /\ OnlyResize(regs[i].options) /\ OnlyResize(regs[j].options)
            /\ SpelledFalse(regs[i].options) = SpelledFalse(regs[j].options) )
          => /\ regs[j].id = regs[i].id
             /\ regs[j].ret = regs[i].ret
             /\ ~regs[j].added

C12_Witness ==
    \E i, j \in DOMAIN regs :
        /\ i < j
        /\ regs[i].filename = regs[j].filename
        /\ regs[i].options = OptResizeZero /\ regs[j].options = OptResizeAbsent
        /\ ~regs[i].rec.resize /\ ~regs[j].rec.resize
        /\ regs[j].ret = regs[i].ret
        /\ _img_id = 1

\* the resolved spec a draw was made for
SpecOf(id) ==
    processedImages[CHOOSE n \in DOMAIN processedImages : processedImages[n]._img_id = id]

\* C13: in the replacement of every spec drawn, the X component is "100%"
\* for align right, "center" for align center and otherwise "-<x>px" for
\* the x of the first copy of the block; the Y component is "-<y>px" for
\* the y of the first copy.
C13_ReplacementComponents ==
    \A b \in DOMAIN builds : \A n \in DOMAIN builds[b].draws :
        LET dr    == builds[b].draws[n]
            align == RegisteredAs(SpecOf(dr.id)).align
            x     == CASE align = "right"  -> "100%"
                       [] align = "center" -> "center"
                       [] OTHER            -> "-" \o ToString(dr.copies[1].x) \o "px"
            y     == "-" \o ToString(dr.copies[1].y) \o "px"
        IN  (Drawn(b) /\ dr.copies # <<>>) =>
               dr.replacement = x \o " " \o y \o appendMargin(SpecOf(dr.id))

C13_Witness ==
    \E b \in DOMAIN builds :
        /\ Drawn(b)
        /\ Len(builds[b].draws) = 2
        /\ RegisteredAs(SpecOf(builds[b].draws[1].id)).align = "center"
        /\ builds[b].draws[1].replacement = "center -0px"
        /\ RegisteredAs(SpecOf(builds[b].draws[2].id)).align = "left"
        /\ builds[b].draws[2].replacement = "-0px -30px"

\* the option string has a clause for the key
GivesKey(options, key) ==
    \E n \in DOMAIN Split(options, ";") : ClauseKey(Split(options, ";")[n]) = key

\* the option string a spec was registered with
OptionsOf(d) ==
    regs[CHOOSE i \in DOMAIN regs : regs[i].ok /\ regs[i].hash = d.hash].options

\* C14: a spec registered without a valign option, not resized, whose block
\* is higher than its image, has its image at the top of the block.
C14_ValignDefaultsToTop ==
    \A b \in DOMAIN builds : \A n \in DOMAIN builds[b].draws :
        LET dr == builds[b].draws[n]
            d  == SpecOf(dr.id)
        IN  ( /\ Drawn(b)
              /\ ~GivesKey(OptionsOf(d), "valign")
              /\ ~dr.resize
              /\ d.blockHeight > d.imageHeight )
            => dr.posY = 0

\* C15: for a spec registered without width and height and with align
\* block or left, the replacement is "-Xpx -Ypx" for the canvas position
\* (X, Y) to which the first copy of its block is copied, and the image
\* sits at the top left of the block.
C15_ReplacementIsDrawPosition ==
    \A b \in DOMAIN builds : \A n \in DOMAIN builds[b].draws :
        LET dr == builds[b].draws[n]
            d  == SpecOf(dr.id)
        IN  ( /\ Drawn(b)
              /\ ~GivesKey(OptionsOf(d), "width")
              /\ ~GivesKey(OptionsOf(d), "height")
              /\ RegisteredAs(d).align \in {"block", "left"} )
            => /\ dr.copies # <<>>
               /\ dr.posX = 0 /\ dr.posY = 0
               /\ dr.replacement = "-" \o ToString(dr.copies[1].x) \o "px -"
                                       \o ToString(dr.copies[1].y) \o "px"

\* the atoms after the last "." of a file name; none when it has no "."
RECURSIVE Extension(_)
Extension(name) ==
    IF name = <<>> THEN <<>>
    ELSE IF \E k \in DOMAIN Tail(name) : Tail(name)[k] = "." THEN Extension(Tail(name))
    ELSE IF Head(name) = "." THEN Tail(name)
    ELSE <<>>

\* the file name the constructor is given, "sprite.png" when none
GivenOutputFile ==
    IF sprite.options = <<>> THEN <<"sprite", ".", "png">> ELSE sprite.options

\* a text in any letter case of one of the output formats
IsOutputFormat(text) ==
    text \in {"png", "PNG", "jpeg", "jpg", "Jpg", "gif"}

\* C16 as stated: the construction succeeds exactly when the text after the
\* last dot of output_file is png, jpeg, jpg or gif in any letter case.
C16_ExtensionDecides ==
    sprite.state # "new" =>
        (sprite.state = "constructed" <=> IsOutputFormat(Str(Extension(GivenOutputFile))))

\* C16 amended: the construction succeeds exactly when the text after the
\* last dot of output_file, or the whole of output_file when it has no
\* dot, is png, jpeg, jpg or gif in any letter case, or when output_file
\* ends with a dot (the format is then png).  Otherwise it fails with an
\* error naming the text, and the object takes no reference.
C16_LastPartDecides ==
    LET name   == GivenOutputFile
        hasDot == \E k \in DOMAIN name : name[k] = "."
        last   == IF hasDot THEN Str(Extension(name)) ELSE Str(name)
    IN  sprite.state # "new" =>
          /\ sprite.state = "constructed" <=> (IsOutputFormat(last) \/ last = "")
          /\ sprite.state = "constructed" =>
                sprite.output_format \in {"png", "jpeg", "jpg", "gif"}
          /\ (sprite.state = "constructed" /\ last = "") => sprite.output_format = "png"
          /\ sprite.state = "thrown" =>
                /\ sprite.msg = "Invalid output format '" \o last \o "'"
                /\ regs = <<>>

C16_Witness ==
    /\ sprite.state = "constructed"
    /\ sprite.options = OutUpper
    /\ sprite.output_format = "png"
    /\ Len(regs) = 1

\* no drawing pass has run: every resolved spec is as processImage left it
NothingDrawn == \A b \in DOMAIN builds : ~builds[b].drew

\* C17: a resolved spec has blockWidth = limit-repeat-x when repeat is x
\* and the limit is not 0, "100%" when repeat is x with limit 0 or align is
\* not block, and its resolved width otherwise.
C17_BlockWidthByCase ==
    NothingDrawn =>
        \A n \in DOMAIN processedImages :
            LET d == processedImages[n]
            IN  d.blockWidth =
                    IF d.repeat = "x" /\ d["limit-repeat-x"] # 0
                    THEN Num(d["limit-repeat-x"])
                    ELSE IF d.repeat = "x" \/ d.align # "block"
                    THEN Text("100%")
                    ELSE Num(d.width)

\* C18: every resolved spec has blockHeight >= height >= 0 and a blockWidth
\* that is "100%" or a positive number, whatever numbers its options gave.
C18_BlockSizeInvariant ==
    NothingDrawn =>
        \A n \in DOMAIN processedImages :
            LET d == processedImages[n]
            IN  /\ d.blockHeight >= d.height
                /\ d.height >= 0
                /\ \/ d.blockWidth = Text("100%")
                   \/ d.blockWidth.t = "number" /\ d.blockWidth.n > 0

\* the width a resolved spec asks of the canvas
WidthNeeded(d) ==
    IF d.blockWidth.t = "number" /\ d.blockWidth.n > d.width THEN d.blockWidth.n ELSE d.width

RECURSIVE MaxWidthNeeded(_)
MaxWidthNeeded(procs) ==
    IF Len(procs) = 1 THEN WidthNeeded(procs[1])
    ELSE LET rest == MaxWidthNeeded(Tail(procs))
         IN  IF WidthNeeded(Head(procs)) > rest THEN WidthNeeded(Head(procs)) ELSE rest

C20_OneDecodeAtATime ==
    \A b \in DOMAIN builds :
        LET st == builds[b].started
        IN  /\ \A m, n \in DOMAIN st : m < n => st[m] < st[n]
            /\ \A m \in DOMAIN st :
                  m < Len(st) => st[m] \in Range(builds[b].decoded) \cup Range(builds[b].dropped)
            /\ builds[b].pc = "decoding" <=>
                  /\ st # <<>>
                  /\ builds[b].cur._img_id = st[Len(st)]
                  /\ st[Len(st)] \notin Range(builds[b].decoded) \cup Range(builds[b].dropped)
            /\ \A m \in DOMAIN builds[b].decoded :
                  \E n \in DOMAIN processedImages :
                     /\ processedImages[n]._img_id = builds[b].decoded[m]
                     /\ processedImages[n].blockHeight >= processedImages[n].height
                     /\ canvasWidth >= processedImages[n].width
                     /\ canvasHeight >= processedImages[n].blockHeight + padding

C20_Witness ==
    \E b \in DOMAIN builds :
        /\ builds[b].started = <<1, 2>>
        /\ builds[b].decoded = <<1>>
        /\ builds[b].pc = "decoding"
        /\ Len(processedImages) = 1

\* C21: the drawing pass of a build runs only when every spec registered
\* before the build is resolved: none waiting, in flight or failed.
C21_DrawsOnlyWhenAllResolved ==
    \A b \in DOMAIN builds : \A i \in DOMAIN regs :
        (builds[b].drew /\ i <= builds[b].regsBefore /\ regs[i].ok)
            => \E n \in DOMAIN builds[b].draws : builds[b].draws[n].id = regs[i].id

\* C22: when the decode of a spec fails the build stops: it starts no
\* decode of a later spec, and the error given to the callback carries
\* the line number of the first registration of the spec.
C22_FailedDecodeAborts ==
    \A b \in DOMAIN builds :
        LET st == builds[b].started
        IN  /\ \A m \in DOMAIN st : st[m] \in Range(builds[b].dropped) => m = Len(st)
            /\ \A m \in DOMAIN builds[b].dropped :
                  \E n \in DOMAIN builds[b].cb :
                     /\ builds[b].cb[n].err
                     /\ \E i \in DOMAIN regs :
                           /\ regs[i].ok /\ regs[i].counted
                           /\ regs[i].id = builds[b].dropped[m]
                           /\ builds[b].cb[n].msg = "ENOENT; CSS line nr #" \o ToString(i)

\* C23: a build that comes to a spec whose file name has no png, gif, jpg
\* or jpeg extension starts no decode of it and gives the error to its
\* callback, wherever the spec is in the registration order.
C23_UnknownFileTypeGoesToCallback ==
    \A b \in DOMAIN builds :
        builds[b].threw # "" =>
            /\ \A n \in DOMAIN processedImages :
                  openImage(PathOf(processedImages[n].filename)) # "throw"
            /\ \E n \in DOMAIN builds[b].cb :
                  builds[b].cb[n].err /\ builds[b].cb[n].msg = builds[b].threw

\* C24: a build whose write of the sprite file failed calls its callback
\* with the error and never with the substituted text.
C24_SaveErrorGoesToCallback ==
    \A b \in DOMAIN builds :
        (builds[b].pc = "done" /\ b \notin Range(outputFile)) =>
            /\ builds[b].cb # <<>>
            /\ \A n \in DOMAIN builds[b].cb : builds[b].cb[n].err

RECURSIVE SumW(_)
SumW(copies) == IF copies = <<>> THEN 0 ELSE Head(copies).w + SumW(Tail(copies))

\* the vertical cursor after draw n of build b
CursorAfter(b, n) ==
    IF n < Len(builds[b].draws) THEN builds[b].draws[n + 1].startY ELSE builds[b].curY

\* C25: a repeat:x spec of positive width is copied at x = 0, width,
\* 2 * width, ... on one row, no tile wider than width, none reaching
\* past blockWidth, the tile widths adding up to blockWidth, which is
\* the canvas width when limit-repeat-x is 0 and limit-repeat-x
\* otherwise; the cursor then moves down by height + padding.
C25_RepeatXTiles ==
    \A b \in DOMAIN builds : \A n \in DOMAIN builds[b].draws :
        LET dr == builds[b].draws[n]
            d  == SpecOf(dr.id)
            bw == IF RegisteredAs(d)["limit-repeat-x"] = 0
                  THEN builds[b].canvas.width ELSE RegisteredAs(d)["limit-repeat-x"]
        IN  (Drawn(b) /\ RegisteredAs(d).repeat = "x" /\ d.width > 0) =>
               /\ \A k \in DOMAIN dr.copies :
                     /\ dr.copies[k].x = (k - 1) * d.width
                     /\ dr.copies[k].y = dr.startY
                     /\ dr.copies[k].w <= d.width
                     /\ dr.copies[k].x + dr.copies[k].w <= bw
                     /\ dr.copies[k].h = d.height
               /\ SumW(dr.copies) = bw
               /\ CursorAfter(b, n) = dr.startY + d.height + padding

\* C26: a repeat:y spec of positive height is copied at one x with y
\* growing from startY, no tile higher than height, each tile below the
\* one before, the tile heights adding up to blockHeight; the cursor is
\* then at startY + blockHeight + padding.
C26_RepeatYTiles ==
    \A b \in DOMAIN builds : \A n \in DOMAIN builds[b].draws :
        LET dr == builds[b].draws[n]
            d  == SpecOf(dr.id)
        IN  (Drawn(b) /\ RegisteredAs(d).repeat = "y" /\ d.height > 0) =>
               /\ dr.copies # <<>>
               /\ dr.copies[1].y = dr.startY
               /\ \A k \in DOMAIN dr.copies :
                     /\ dr.copies[k].x = dr.copies[1].x
                     /\ dr.copies[k].h <= d.height
                     /\ dr.copies[k].w = d.width
                     /\ k > 1 => dr.copies[k].y = dr.copies[k - 1].y + dr.copies[k - 1].h
               /\ SumH(dr.copies) = d.blockHeight
               /\ CursorAfter(b, n) = dr.startY + d.blockHeight + padding

C26_Witness ==
    \E b \in DOMAIN builds :
        /\ Drawn(b)
        /\ Len(builds[b].draws) = 2
        /\ RegisteredAs(SpecOf(builds[b].draws[1].id)).repeat = "y"
        /\ builds[b].draws[1].copies =
              <<[x |-> 0, y |-> 0, w |-> 20, h |-> 20], [x |-> 0, y |-> 20, w |-> 20, h |-> 5]>>
        /\ builds[b].draws[2].startY = 35

\* the distance of two integers
Distance(a, b) == IF a < b THEN b - a ELSE a - b

\* the margin, height and width declarations for the numbers m
MarginText(m) ==
    ";margin:" \o ToString(m.top) \o "px " \o ToString(m.right) \o "px "
    \o ToString(m.bottom) \o "px " \o ToString(m.left) \o "px !important;"
    \o "height:" \o ToString(m.height) \o "px !important;"
    \o "width:" \o ToString(m.width) \o "px !important"

\* the text before the declarations of the margin in a replacement
PlacementText(dr, d) ==
    (CASE d.align = "right"  -> "100%"
       [] d.align = "center" -> "center"
       [] OTHER              -> "-" \o ToString(dr.startX) \o "px")
    \o " -" \o ToString(dr.startY) \o "px"

\* the margins of the draw dr of the spec d add up to the totals of d less
\* the size of the image, differ by one at most, and are in the replacement
\* with the size of the image plus padwidth and padheight
MarginsFit(dr, d) ==
    LET m   == dr.margins
        img == ImageOf(d.filename)
    IN  /\ m.emitted
        /\ m.left + m.right = d.totalwidth - img.width
        /\ m.top + m.bottom = d.totalheight - img.height
        /\ Distance(m.left, m.right) <= 1
        /\ Distance(m.top, m.bottom) <= 1
        /\ m.width = img.width + (IF "padwidth" \in DOMAIN d THEN d.padwidth ELSE 0)
        /\ m.height = img.height + (IF "padheight" \in DOMAIN d THEN d.padheight ELSE 0)
        /\ dr.replacement = PlacementText(dr, d) \o MarginText(m)

\* C27 as stated: every spec drawn that was given totalwidth and
\* totalheight has margins with left + right = totalwidth - imageWidth and
\* top + bottom = totalheight - imageHeight, each pair differing by one at
\* most, and width and height imageWidth + padwidth, imageHeight + padheight.
C27_MarginsWhenSpecified ==
    \A b \in DOMAIN builds : \A n \in DOMAIN builds[b].draws :
        LET dr == builds[b].draws[n]
            d  == SpecOf(dr.id)
        IN  ( /\ Drawn(b)
              /\ GivesKey(OptionsOf(d), "totalwidth")
              /\ GivesKey(OptionsOf(d), "totalheight") ) => MarginsFit(dr, d)

\* C27 amended: the same for every spec drawn whose totalwidth and
\* totalheight are both given and not zero.
C27_MarginsWhenNonZero ==
    \A b \in DOMAIN builds : \A n \in DOMAIN builds[b].draws :
        LET dr == builds[b].draws[n]
            d  == SpecOf(dr.id)
        IN  ( /\ Drawn(b)
              /\ GivesKey(OptionsOf(d), "totalwidth")
              /\ GivesKey(OptionsOf(d), "totalheight")
              /\ d.totalwidth # 0 /\ d.totalheight # 0 ) => MarginsFit(dr, d)

\* b.png 10 x 10 in a box 8 x 5 with padwidth 5 and a.png 20 x 20 in a box
\* 30 x 25 drawn by one build: a negative even, a negative odd, a positive
\* even and a positive odd difference
C27_Witness ==
    \E b \in DOMAIN builds :
        /\ Drawn(b)
        /\ Len(builds[b].draws) = 2
        /\ builds[b].draws[1].margins =
              [emitted |-> TRUE, top |-> -2, right |-> -1, bottom |-> -3, left |-> -1,
               height |-> 10, width |-> 15]
        /\ builds[b].draws[2].margins =
              [emitted |-> TRUE, top |-> 3, right |-> 5, bottom |-> 2, left |-> 5,
               height |-> 20, width |-> 20]

\* C28: a call of spritefunc whose signature is the one of a spec in
\* this.images leaves this.images, with the fields of every spec in it,
\* and the counter _img_id as they were, and returns the placeholder of
\* that spec.
C28_HitLeavesRegistryUnchanged ==
    [][ \A n \in DOMAIN images :
          ( /\ Len(regs') = Len(regs) + 1
            /\ regs'[Len(regs')].ok
            /\ regs'[Len(regs')].hash = images[n].hash )
          => /\ images' = images
             /\ _img_id' = _img_id
             /\ regs'[Len(regs')].ret = PlaceholderText(images[n]._img_id) ]_vars

\* the second reference spells the options of the first one differently
\* and hits it: one spec, first seen on line 1, and the counter at 1
C28_Witness ==
    /\ Len(regs) = 2
    /\ regs[1].ok /\ regs[2].ok
    /\ regs[1].options # regs[2].options
    /\ regs[1].hash = regs[2].hash
    /\ regs[1].added /\ ~regs[2].added /\ ~regs[2].counted
    /\ Len(images) = 1
    /\ images[1].lineno = 1 /\ images[1]._img_id = 1
    /\ _img_id = 1
    /\ regs[2].ret = "SPRITE_PLACEHOLDER(1)"

\* the clauses of an option string that have a key
KeyedClauses(options) == SelectSeq(Split(options, ";"), LAMBDA c : ClauseKey(c) # "")

\* the value validate gives for the clause c, if any
Validated(c) == validate(ClauseKey(c), ClauseValue(c))

\* every clause of the option string validates
AllValidate(options) ==
    \A n \in DOMAIN KeyedClauses(options) : Validated(KeyedClauses(options)[n]).ok

\* key and value of the last clause of each key of the option string
LastClauses(options) ==
    LET cl == KeyedClauses(options)
    IN  { <<ClauseKey(cl[n]), ClauseValue(cl[n])>> :
            n \in { n \in DOMAIN cl :
                      \A m \in DOMAIN cl : m > n => ClauseKey(cl[m]) # ClauseKey(cl[n]) } }

\* C29: a reference one of whose clauses does not validate registers
\* nothing, also when a later clause gives the same key a valid value; when
\* every clause validates the record has, for every key, the value of the
\* last clause of that key, and two references to a file whose last
\* clauses are the same have the same signature and, before any build, the
\* same placeholder.
C29_LastClauseWins ==
    \A i \in DOMAIN regs :
        /\ ~AllValidate(regs[i].options) =>
              ~regs[i].ok /\ ~regs[i].added /\ ~regs[i].counted
        /\ AllValidate(regs[i].options) =>
              /\ regs[i].ok
              /\ \A kv \in LastClauses(regs[i].options) :
                    kv[1] \in DOMAIN regs[i].rec =>
                        regs[i].rec[kv[1]] = validate(kv[1], kv[2]).val
              /\ \A j \in DOMAIN regs :
                    ( /\ AllValidate(regs[j].options)
                      /\ regs[j].filename = regs[i].filename
                      /\ LastClauses(regs[j].options) = LastClauses(regs[i].options) )
                    => /\ regs[j].hash = regs[i].hash
                       /\ (regs[i].builds = 0 /\ regs[j].builds = 0)
                             => regs[j].ret = regs[i].ret

\* "width:5;width: 30" is registered as "width:30" is, and "width:abc;
\* width:5" is refused
C29_Witness ==
    /\ Len(regs) = 2
    /\ regs[1].options = OptWidth5Then30
    /\ regs[1].ok
    /\ regs[1].rec.width = 30
    /\ regs[1].hash = Hash(Merged(regs[1].filename, OptWidth30).imgdata)
    /\ regs[1].ret = "SPRITE_PLACEHOLDER(1)"
    /\ regs[2].options = OptWidthAbcThen5
    /\ ~regs[2].ok
    /\ Len(images) = 1
    /\ _img_id = 1

\* the sum of blockHeight + padding over the specs with the ids
RECURSIVE SumBlocksOf(_)
SumBlocksOf(ids) ==
    IF ids = <<>> THEN 0
    ELSE SpecOf(Head(ids)).blockHeight + padding + SumBlocksOf(Tail(ids))

\* C30: a build that ran after the builds before it had ended, every
\* decode succeeding, draws the specs it has resolved itself and no other,
\* on a canvas as high as the blocks of those specs.
C30_CanvasStatePerBuild ==
    \A b \in DOMAIN builds :
        (Drawn(b) /\ RanInSequence(b)) =>
            /\ [n \in DOMAIN builds[b].draws |-> builds[b].draws[n].id] = builds[b].decoded
            /\ builds[b].canvas.height = SumBlocksOf(builds[b].decoded)

\* build b runs its drawing pass in this step
StartsDrawing(b) ==
    /\ b \in DOMAIN builds'
    /\ builds'[b].drew
    /\ ~(b \in DOMAIN builds /\ builds[b].drew)

\* C31: when a build runs its drawing pass no decode of the instance is
\* outstanding, and the pass draws every spec created before it, for builds
\* that overlap as for builds that follow one another.
C31_PassesDoNotInterleave ==
    [][ \A b \in DOMAIN builds' :
          StartsDrawing(b) =>
             /\ \A c \in DOMAIN builds : builds[c].pc # "decoding"
             /\ {builds'[b].draws[n].id : n \in DOMAIN builds'[b].draws} = 1.._img_id
      ]_vars

\* the spec with the id has been resolved, once
DecodedOnce(id) ==
    Cardinality({n \in DOMAIN processedImages : processedImages[n]._img_id = id}) = 1

\* build b has called back once, without an error, with the text in which
\* the drawing pass put the replacements
CalledBackWithText(b) ==
    /\ builds[b].pc = "done"
    /\ Len(builds[b].cb) = 1
    /\ ~builds[b].cb[1].err
    /\ builds[b].cb[1].css = builds[b].out

\* C32: when every decode succeeds and every decode, tick and write ends,
\* a build that was called in time calls back with the text with the
\* replacements, every spec created before it resolved exactly once.
C32_BuildCallsBack ==
    \A b \in 1..MaxBuilds :
        (b \in DOMAIN builds) ~>
            ( /\ b \in DOMAIN builds
              /\ CalledBackWithText(b)
              /\ \A id \in 1..builds[b].specs : DecodedOnce(id) )

\* C33: the drawing pass of every build ends: no build stays in makeMap, in
\* a tiling loop whose cursor does not advance.
C33_DrawingPassTerminates ==
    /\ process # "hung"
    /\ \A b \in DOMAIN builds : builds[b].pc # "makeMap"

\* every spec build b has drawn has a positive width and height
PositiveSizes(b) ==
    \A n \in DOMAIN builds[b].draws :
        SpecOf(builds[b].draws[n].id).width > 0 /\ SpecOf(builds[b].draws[n].id).height > 0

\* every rectangle build b has copied lies on its canvas
CopiesOnCanvas(b) ==
    \A n \in DOMAIN builds[b].draws : \A k \in DOMAIN builds[b].draws[n].copies :
        LET c == builds[b].draws[n].copies[k]
        IN  /\ 0 <= c.x /\ c.x + c.w <= builds[b].canvas.width
            /\ 0 <= c.y /\ c.y + c.h <= builds[b].canvas.height
            /\ builds[b].draws[n].startY <= c.y
            /\ c.y + c.h <= builds[b].draws[n].startY + SpecOf(builds[b].draws[n].id).blockHeight

\* the blocks of build b follow one another, padding rows apart
BlocksApart(b) ==
    \A n \in DOMAIN builds[b].draws :
        /\ SpecOf(builds[b].draws[n].id).blockHeight > 0
        /\ builds[b].draws[n].startY =
              IF n = 1 THEN 0
              ELSE builds[b].draws[n - 1].startY
                   + SpecOf(builds[b].draws[n - 1].id).blockHeight + padding

\* the blocks of build b are in the order of the ids of their specs
InRegistrationOrder(b) ==
    \A m, n \in DOMAIN builds[b].draws :
        m < n => builds[b].draws[m].id < builds[b].draws[n].id

RECURSIVE Created(_)
Created(i) == IF i = 0 THEN 0 ELSE Created(i - 1) + (IF regs[i].added THEN 1 ELSE 0)

\* the number of places the spec with the id is in: waiting in
\* this.images, resolved in this.processedImages, with a build that has
\* handed it to processImage, or dropped by a build after its decode failed
Places(id) ==
    Cardinality({n \in DOMAIN images : images[n]._img_id = id})
    + Cardinality({n \in DOMAIN processedImages : processedImages[n]._img_id = id})
    + Cardinality({b \in DOMAIN builds : builds[b].cur._img_id = id})
    + Cardinality({<<b, n>> \in (DOMAIN builds) \X (1..MaxRegs) :
                     n \in DOMAIN builds[b].dropped /\ builds[b].dropped[n] = id})

\* C36: the ids are 1, 2, ... in the order in which the specs were
\* created; the counter is the number of specs created; a refused
\* reference and a hit take no id; every spec created is in one place and one
\* only, and canvasHeight holds every resolved spec once.
C36_IdsAndPlaces ==
    /\ _img_id = Created(Len(regs))
    /\ \A i \in DOMAIN regs :
          /\ regs[i].added <=> regs[i].counted
          /\ regs[i].added => regs[i].ok /\ regs[i].id = Created(i)
          /\ ~regs[i].ok => ~regs[i].added
          /\ (regs[i].ok /\ ~regs[i].added) => regs[i].id \in 1..Created(i - 1)
    /\ \A id \in 1.._img_id : Places(id) = 1
    /\ canvasHeight = SumBlocks(processedImages)

\* one spec waits, one was dropped by a build after its decode failed
C36_Witness ==
    /\ _img_id = 2
    /\ Len(images) = 1 /\ images[1]._img_id = 2
    /\ processedImages = <<>>
    /\ \E b \in DOMAIN builds : builds[b].dropped = <<1>> /\ builds[b].pc = "done"
    /\ canvasHeight = 0

\* the X components a replacement can have
XComponents == {"-0px", "center", "100%"}

CommonOptionsOnly(d) ==
    \A n \in DOMAIN KeyedClauses(OptionsOf(d)) :
        ClauseKey(KeyedClauses(OptionsOf(d))[n]) \in PngOnlyKeys

\* C38: for specs registered with the options both implementations know,
\* the implementation of src/stylus-sprite.js puts every block at the x of
\* this implementation and substitutes the same replacement for its id.
C38_SameAsPngOnly ==
    \A b \in DOMAIN builds : \A n \in DOMAIN builds[b].draws :
        LET dr == builds[b].draws[n]
            d  == SpecOf(dr.id)
        IN  (Drawn(b) /\ CommonOptionsOnly(d)) =>
              /\ d.repeat # "x" => alignXPngOnly(d, builds[b].canvas.width) = dr.startX
              /\ replacementOfPngOnly(d, dr.startX, dr.startY) = dr.replacement

=============================================================================
